---- MODULE Spec2Model ----
(***************************************************************************)
(* Model of src/caps.py: class YouTubeSentimentAnalyzer.                   *)
(*                                                                         *)
(*   Spec          get_video_info followed by get_comments, as main()      *)
(*                 sequences them, against an arbitrary comment source.    *)
(*   SpecProgress  the same program against a source whose cursor-bearing  *)
(*                 pages are never empty, with the fairness of a running   *)
(*                 sequential program.                                     *)
(*   SpecClean     clean_text applied once and then again to its output.   *)
(*   SpecAnalyze   the for-loop of analyze over a list of raw comments.    *)
(*                                                                         *)
(* Strings are sequences of one-character strings.  Scores are integers in *)
(* thousandths (0.1 is 100).                                               *)
(***************************************************************************)
EXTENDS Integers, Sequences, FiniteSets, TLC

VARIABLES
    pc,                 \* position of the running program
    video_info,         \* self.video_info
    info_result,        \* value returned by get_video_info
    info_outcome,       \* what the videos().list request did (environment)
    st_error,           \* last message passed to st.error
    max_comments,       \* argument of get_comments
    comments,           \* local list `comments` of get_comments
    next_page_token,    \* local `next_page_token` of get_comments
    result,             \* value returned by get_comments
    failed,             \* a commentThreads().list request raised (environment)
    sent,               \* pageToken of every page request issued, in order
    received,           \* every successful page response, in order
    text,               \* argument of clean_text
    cleaned,            \* clean_text(text)
    recleaned,          \* clean_text(clean_text(text))
    analyze_comments,   \* the comments analyze has iterated over so far
    data,               \* local list `data` of analyze
    comments_df         \* self.comments_df

vars == <<pc, video_info, info_result, info_outcome, st_error, max_comments,
          comments, next_page_token, result, failed, sent, received,
          text, cleaned, recleaned, analyze_comments, data, comments_df>>

infoVars == <<video_info, info_result, info_outcome>>
fetchVars == <<max_comments, comments, next_page_token, result, failed, sent, received>>
cleanVars == <<text, cleaned, recleaned>>
analyzeVars == <<analyze_comments, data, comments_df>>

----------------------------------------------------------------------------
(* Bounds of the model *)

\* budgets 1..MaxBudget are explored
MaxBudget == 3
\* and budgets API_MAX_RESULTS .. API_MAX_RESULTS + MaxOver
MaxOver == 1
\* page requests explored against a source that may return empty pages forever
MaxRequests == 4
\* longest string clean_text is applied to
MaxTextLen == 5
\* longest list of raw comments analyze iterates over
MaxComments == 3

----------------------------------------------------------------------------
(* Python values *)

\* Python's None, as a page token
None == 0

\* Python's None, as a returned object
NoneValue == [kind |-> "None"]

Min(a, b) == IF a < b THEN a ELSE b

\* int(video['statistics'].get(key, 0)): an absent field counts 0
Absent == -1
StatOrZero(v) == IF v = Absent THEN 0 ELSE v

\* the statistics fields a response may carry
StatValues == {Absent, 7}

----------------------------------------------------------------------------
(* get_video_info *)

\* the value the except-branch returns
InfoOnException == NoneValue

\* the value returned when the response has no items
InfoOnNoItems == NoneValue

GetVideoInfoError ==
    /\ pc = "main"
    /\ info_outcome' = "error"
    /\ st_error' = "YouTube API Error (video info)"
    /\ info_result' = InfoOnException
    /\ pc' = "info_none"
    /\ UNCHANGED <<video_info, fetchVars, cleanVars, analyzeVars>>

GetVideoInfoNotFound ==
    /\ pc = "main"
    /\ info_outcome' = "not_found"
    /\ st_error' = "No video found with this ID."
    /\ info_result' = InfoOnNoItems
    /\ pc' = "info_none"
    /\ UNCHANGED <<video_info, fetchVars, cleanVars, analyzeVars>>

GetVideoInfoFound(viewCount, likeCount, commentCount) ==
    /\ pc = "main"
    /\ info_outcome' = "found"
    /\ video_info' = [kind |-> "video_info",
                      views |-> StatOrZero(viewCount),
                      likes |-> StatOrZero(likeCount),
                      comments_count |-> StatOrZero(commentCount)]
    /\ info_result' = video_info'
    /\ pc' = "info_ok"
    /\ UNCHANGED <<st_error, fetchVars, cleanVars, analyzeVars>>

----------------------------------------------------------------------------
(* get_comments *)

\* the source API's maximum page size
API_MAX_RESULTS == 100

\* the budgets a caller passes
Budgets == (1..MaxBudget) \cup (API_MAX_RESULTS..(API_MAX_RESULTS + MaxOver))

\* MaxResults without the remaining budget: always a full page
MaxResultsIgnoresBudget(max, len) == API_MAX_RESULTS

\* maxResults=min(100, max_comments - len(comments))
MaxResults(max, len) == Min(API_MAX_RESULTS, max - len)

\* WhileCond off by one: the loop stops one comment short
WhileCondStopsEarly(len, max) == len + 1 < max

\* while len(comments) < max_comments
WhileCond(len, max) == len < max

\* PageToken without the cursor: every request asks for the first page
PageTokenAlwaysFirst(tok) == None

\* pageToken=next_page_token
PageToken(tok) == tok

\* Exhausted without the break: a missing cursor does not end the loop
NeverExhausted(tok) == FALSE

\* if not next_page_token: break
Exhausted(tok) == tok = None

\* except Exception: return []
ReturnOnException(acc) == <<>>

\* the comments of page p when it carries k items: each dict appended is
\* identified by the page and the position the source supplied it at
PageItems(p, k) == [i \in 1..k |-> [page |-> p, idx |-> i]]

\* the numbers of items a source answers a request for `req` items with
PageCounts(req) == {k \in {0, 1, req - 1, req} : k >= 0 /\ k <= req}

\* the cursors the response to page request p may carry: none, or an opaque
\* token that no other page's response carries
Cursors(p) == {None, p}

CallGetComments(m) ==
    /\ pc = "info_ok"
    /\ max_comments' = m
    /\ comments' = <<>>
    /\ next_page_token' = None
    /\ pc' = "while"
    /\ UNCHANGED <<infoVars, st_error, result, failed, sent, received,
                   cleanVars, analyzeVars>>

\* the while condition is false: return comments
LoopExit ==
    /\ pc = "while"
    /\ ~WhileCond(Len(comments), max_comments)
    /\ result' = comments
    /\ pc' = "returned"
    /\ UNCHANGED <<infoVars, st_error, max_comments, comments, next_page_token,
                   failed, sent, received, cleanVars, analyzeVars>>

\* request.execute() raises
PageRequestFails ==
    /\ pc = "while"
    /\ WhileCond(Len(comments), max_comments)
    /\ sent' = Append(sent, PageToken(next_page_token))
    /\ failed' = TRUE
    /\ st_error' = "YouTube API Error (comments)"
    /\ result' = ReturnOnException(comments)
    /\ pc' = "returned"
    /\ UNCHANGED <<infoVars, max_comments, comments, next_page_token, received,
                   cleanVars, analyzeVars>>

\* request.execute() answers with k items and a cursor
PageRequestSucceeds(k, cursor) ==
    /\ pc = "while"
    /\ WhileCond(Len(comments), max_comments)
    /\ k \in PageCounts(MaxResults(max_comments, Len(comments)))
    /\ cursor \in Cursors(Len(received) + 1)
    /\ sent' = Append(sent, PageToken(next_page_token))
    /\ received' = Append(received, [n |-> k, cursor |-> cursor])
    /\ comments' = comments \o PageItems(Len(received) + 1, k)
    /\ next_page_token' = cursor
    /\ IF Exhausted(cursor)
          THEN /\ result' = comments'
               /\ pc' = "returned"
          ELSE /\ result' = result
               /\ pc' = "while"
    /\ UNCHANGED <<infoVars, st_error, max_comments, failed, cleanVars, analyzeVars>>

----------------------------------------------------------------------------
(* clean_text *)

\* the word characters that occur in the strings explored
Letters == {"h", "t", "p", "s", "w", "a", "b", "o", "k"}

\* the characters the arguments of clean_text are built from: letters, '@',
\* a space, and '#', which is neither a word character, whitespace nor one
\* of . , ! ?
Chars == {"h", "t", "p", "w", "@", "#", " "}

\* \w
IsWord(c) == c \in Letters

\* \s
IsSpace(c) == c = " "

\* \S
IsNonSpace(c) == ~IsSpace(c)

\* s[i..] begins with the characters of lit
StartsWith(s, i, lit) ==
    /\ i + Len(lit) - 1 <= Len(s)
    /\ \A j \in 1..Len(lit) : s[i + j - 1] = lit[j]

\* the last index of the longest run of non-whitespace that begins at i
\* (i - 1 when there is none): a greedy \S+
RECURSIVE NonSpaceRunEnd(_, _)
NonSpaceRunEnd(s, i) ==
    IF i <= Len(s) /\ IsNonSpace(s[i]) THEN NonSpaceRunEnd(s, i + 1) ELSE i - 1

\* the same for word characters: a greedy \w+
RECURSIVE WordRunEnd(_, _)
WordRunEnd(s, i) ==
    IF i <= Len(s) /\ IsWord(s[i]) THEN WordRunEnd(s, i + 1) ELSE i - 1

\* lit followed by \S+ matches at i: the last index of the match, else 0
LitThenNonSpace(s, i, lit) ==
    IF StartsWith(s, i, lit) /\ NonSpaceRunEnd(s, i + Len(lit)) >= i + Len(lit)
    THEN NonSpaceRunEnd(s, i + Len(lit))
    ELSE 0

\* r'http\S+|www\S+|https\S+' at i, alternatives tried in order
UrlMatchEnd(s, i) ==
    IF LitThenNonSpace(s, i, <<"h", "t", "t", "p">>) > 0
    THEN LitThenNonSpace(s, i, <<"h", "t", "t", "p">>)
    ELSE IF LitThenNonSpace(s, i, <<"w", "w", "w">>) > 0
    THEN LitThenNonSpace(s, i, <<"w", "w", "w">>)
    ELSE LitThenNonSpace(s, i, <<"h", "t", "t", "p", "s">>)

\* r'@\w+' at i
MentionMatchEnd(s, i) ==
    IF s[i] = "@" /\ WordRunEnd(s, i + 1) >= i + 1
    THEN WordRunEnd(s, i + 1)
    ELSE 0

\* re.sub(r'http\S+|www\S+|https\S+', '', s) from position i on: leftmost
\* non-overlapping matches removed
RECURSIVE SubUrls(_, _)
SubUrls(s, i) ==
    IF i > Len(s) THEN <<>>
    ELSE IF UrlMatchEnd(s, i) > 0 THEN SubUrls(s, UrlMatchEnd(s, i) + 1)
    ELSE <<s[i]>> \o SubUrls(s, i + 1)

\* re.sub(r'@\w+', '', s) from position i on
RECURSIVE SubMentions(_, _)
SubMentions(s, i) ==
    IF i > Len(s) THEN <<>>
    ELSE IF MentionMatchEnd(s, i) > 0 THEN SubMentions(s, MentionMatchEnd(s, i) + 1)
    ELSE <<s[i]>> \o SubMentions(s, i + 1)

\* the characters r'[^\w\s.,!?]' leaves in place
Kept(c) == IsWord(c) \/ IsSpace(c) \/ c \in {".", ",", "!", "?"}

\* str.split(): the maximal runs of non-whitespace, in order
RECURSIVE SplitFrom(_, _)
SplitFrom(s, i) ==
    IF i > Len(s) THEN <<>>
    ELSE IF IsSpace(s[i]) THEN SplitFrom(s, i + 1)
    ELSE <<SubSeq(s, i, NonSpaceRunEnd(s, i))>>
            \o SplitFrom(s, NonSpaceRunEnd(s, i) + 1)

Split(s) == SplitFrom(s, 1)

\* ' '.join(tokens)
RECURSIVE Join(_)
Join(tokens) ==
    IF Len(tokens) = 0 THEN <<>>
    ELSE IF Len(tokens) = 1 THEN tokens[1]
    ELSE tokens[1] \o <<" ">> \o Join(Tail(tokens))

clean_text(t) ==
    LET noUrls == SubUrls(t, 1)
        noMentions == SubMentions(noUrls, 1)
        kept == SelectSeq(noMentions, Kept)
    IN  Join(Split(kept))

\* every string of at most n characters
Strings(n) == UNION {[1..m -> Chars] : m \in 0..n}

CleanText ==
    /\ pc = "clean"
    /\ cleaned' = clean_text(text)
    /\ pc' = "cleaned"
    /\ UNCHANGED <<infoVars, st_error, fetchVars, text, recleaned, analyzeVars>>

CleanTextAgain ==
    /\ pc = "cleaned"
    /\ recleaned' = clean_text(cleaned)
    /\ pc' = "recleaned"
    /\ UNCHANGED <<infoVars, st_error, fetchVars, text, cleaned, analyzeVars>>

----------------------------------------------------------------------------
(* analyze *)

\* len(cleaned.split()) < 2
MIN_TOKENS == 2

\* Accepts off by one: a single token is enough
AcceptsOneToken(c) == ~(Len(Split(c)) < MIN_TOKENS - 1)

\* the comment is not skipped by `continue`
Accepts(c) == ~(Len(Split(c)) < MIN_TOKENS)

\* the texts of the raw comments explored
SampleTexts ==
    { <<>>,
      <<"o", "k">>,
      <<"#", " ", "@", "a">>,
      <<" ", "b", " ", " ", "a", " ">>,
      <<"@", "a", " ", "o", " ", "k", "#">>,
      <<"a", " ", "h", "t", "t", "p", "s", " ", "b", "?">> }

\* the like counts of the raw comments explored
SampleLikes == {0, 3}

\* what the two libraries may answer for one text, in thousandths:
\* TextBlob(cleaned).sentiment and self.vader.polarity_scores(cleaned)
LibraryScores ==
    { [blob |-> [polarity |-> 100, subjectivity |-> 500],
       vader |-> [pos |-> 524, neg |-> 0, neu |-> 476, compound |-> 51]],
      [blob |-> [polarity |-> -101, subjectivity |-> 1000],
       vader |-> [pos |-> 0, neg |-> 0, neu |-> 1000, compound |-> -50]] }

\* the dict analyze appends to data
Record(c, blob, vader) ==
    [comment |-> c,
     polarity |-> blob.polarity,
     subjectivity |-> blob.subjectivity,
     vader_pos |-> vader.pos,
     vader_neg |-> vader.neg,
     vader_neu |-> vader.neu,
     vader_compound |-> vader.compound]

\* pd.DataFrame(data): one row per dict, in list order
DataFrame(rows) == [kind |-> "DataFrame", rows |-> rows]

\* one iteration of the for-loop that ends in `continue`
AnalyzeSkip(comment) ==
    /\ pc = "for"
    /\ ~Accepts(clean_text(comment.text))
    /\ analyze_comments' = Append(analyze_comments, comment)
    /\ UNCHANGED <<pc, infoVars, st_error, fetchVars, cleanVars, data, comments_df>>

\* one iteration of the for-loop that appends a record
AnalyzeScore(comment, scores) ==
    /\ pc = "for"
    /\ LET c == clean_text(comment.text)
       IN  /\ Accepts(c)
           /\ data' = Append(data, Record(c, scores.blob, scores.vader))
    /\ analyze_comments' = Append(analyze_comments, comment)
    /\ UNCHANGED <<pc, infoVars, st_error, fetchVars, cleanVars, comments_df>>

\* the list is used up: build the frame, store it and return it
AnalyzeReturn ==
    /\ pc = "for"
    /\ comments_df' = DataFrame(data)
    /\ pc' = "analyzed"
    /\ UNCHANGED <<infoVars, st_error, fetchVars, cleanVars, analyze_comments, data>>

\* a raw comment as get_comments builds it
RawComments ==
    [author : {"u"}, text : SampleTexts, likes : SampleLikes, published_at : {"d"}]

----------------------------------------------------------------------------
Init ==
    /\ pc = "main"
    /\ video_info = NoneValue
    /\ info_result = NoneValue
    /\ info_outcome = "none"
    /\ st_error = ""
    /\ max_comments = 0
    /\ comments = <<>>
    /\ next_page_token = None
    /\ result = <<>>
    /\ failed = FALSE
    /\ sent = <<>>
    /\ received = <<>>
    /\ text = <<>>
    /\ cleaned = <<>>
    /\ recleaned = <<>>
    /\ analyze_comments = <<>>
    /\ data = <<>>
    /\ comments_df = NoneValue

Next ==
    \/ GetVideoInfoError
    \/ GetVideoInfoNotFound
    \/ \E v \in StatValues, l \in StatValues, c \in StatValues : GetVideoInfoFound(v, l, c)
    \/ \E m \in Budgets : CallGetComments(m)
    \/ LoopExit
    \/ Len(sent) < MaxRequests /\ PageRequestFails
    \/ \E k \in 0..API_MAX_RESULTS, cursor \in Cursors(Len(received) + 1) :
          Len(sent) < MaxRequests /\ PageRequestSucceeds(k, cursor)

Spec == Init /\ [][Next]_vars

\* The same program against a source that never answers with an empty page
\* carrying a cursor.  The program is sequential and keeps running, hence the
\* weak fairness; a request beyond max_comments + 1 is not explored.
NextProgress ==
    \/ GetVideoInfoError
    \/ GetVideoInfoNotFound
    \/ \E v \in StatValues, l \in StatValues, c \in StatValues : GetVideoInfoFound(v, l, c)
    \/ \E m \in Budgets : CallGetComments(m)
    \/ LoopExit
    \/ Len(sent) <= max_comments /\ PageRequestFails
    \/ \E k \in 0..API_MAX_RESULTS, cursor \in Cursors(Len(received) + 1) :
          /\ Len(sent) <= max_comments
          /\ cursor # None => k >= 1
          /\ PageRequestSucceeds(k, cursor)

SpecProgress == Init /\ [][NextProgress]_vars /\ WF_vars(NextProgress)

----------------------------------------------------------------------------
(* Properties of get_comments and get_video_info *)

\* the comments of the first n successful pages, in retrieval order
RECURSIVE AccumulatedPages(_)
AccumulatedPages(n) ==
    IF n = 0 THEN <<>>
    ELSE AccumulatedPages(n - 1) \o PageItems(n, received[n].n)

\* the last successful response carried no cursor
SourceExhausted ==
    /\ Len(received) > 0
    /\ received[Len(received)].cursor = None

\* C1: get_comments never holds or returns more than max_comments comments,
\* in every state of the pagination loop and at return.
C1_BudgetRespected ==
    /\ Len(comments) <= max_comments
    /\ Len(result) <= max_comments

\* C1 witness: a budget above the page size met exactly by a full page and
\* a second page
C1_Witness ==
    /\ pc = "returned"
    /\ max_comments > API_MAX_RESULTS
    /\ Len(received) >= 2
    /\ received[1].n = API_MAX_RESULTS
    /\ Len(result) = max_comments

\* C2: when a page request fails, get_comments returns exactly the comments
\* of the pages that succeeded before the failure, in retrieval order.
C2_PartialOnFailure ==
    (pc = "returned" /\ failed) => result = AccumulatedPages(Len(received))

\* C3: get_comments returns fewer than max_comments comments only when the
\* source was exhausted or a page request failed.
C3_FullUnlessExhaustedOrFailed ==
    pc = "returned" => \/ Len(result) = max_comments
                       \/ SourceExhausted
                       \/ failed

\* C3 witness: every request succeeded, every response carried a cursor, a
\* page came short of the requested size, and the budget was met exactly
C3_Witness ==
    /\ pc = "returned"
    /\ ~failed
    /\ Len(received) >= 2
    /\ \A i \in 1..Len(received) : received[i].cursor # None
    /\ received[1].n < Min(API_MAX_RESULTS, max_comments)
    /\ Len(result) = max_comments

\* C4: the two failures of get_video_info are never reported to the caller
\* as the same value: what is returned for a response without items differs
\* from what is returned for a failed request, and the other way round.
C4_FailuresDistinguishable ==
    /\ info_outcome = "not_found" => info_result # InfoOnException
    /\ info_outcome = "error" => info_result # InfoOnNoItems

\* C9: the first page request carries no cursor, every later request carries
\* the cursor of the immediately preceding response, and no request follows
\* a response without a cursor.
C9_CursorThreading ==
    /\ \A i \in 1..Len(sent) :
          IF i = 1 THEN sent[i] = None
          ELSE /\ i - 1 <= Len(received)
               /\ sent[i] = received[i - 1].cursor
    /\ \A i \in 1..Len(received) :
          received[i].cursor = None => Len(sent) = i

\* C9 witness: three requests threaded by two cursors, then exhaustion with
\* the budget unmet
C9_Witness ==
    /\ pc = "returned"
    /\ ~failed
    /\ Len(sent) = 3
    /\ sent[2] # None
    /\ sent[3] # None
    /\ sent[3] # sent[2]
    /\ SourceExhausted
    /\ Len(result) < max_comments

\* C10: against a source whose cursor-bearing pages are never empty,
\* get_comments issues at most max_comments page requests and returns.
C10_Terminates ==
    /\ [](Len(sent) <= max_comments)
    /\ (pc = "while") ~> (pc = "returned")

\* C10 witness: a budget above 1 used up one comment per request
C10_Witness ==
    /\ pc = "returned"
    /\ max_comments > 1
    /\ Len(sent) = max_comments
    /\ Len(result) = max_comments

----------------------------------------------------------------------------
(* clean_text on every string of at most MaxTextLen characters *)

InitClean ==
    /\ pc = "clean"
    /\ text \in Strings(MaxTextLen)
    /\ cleaned = <<>>
    /\ recleaned = <<>>
    /\ video_info = NoneValue
    /\ info_result = NoneValue
    /\ info_outcome = "none"
    /\ st_error = ""
    /\ max_comments = 0
    /\ comments = <<>>
    /\ next_page_token = None
    /\ result = <<>>
    /\ failed = FALSE
    /\ sent = <<>>
    /\ received = <<>>
    /\ analyze_comments = <<>>
    /\ data = <<>>
    /\ comments_df = NoneValue

NextClean ==
    \/ CleanText
    \/ CleanTextAgain

SpecClean == InitClean /\ [][NextClean]_vars

\* C8: clean_text is idempotent: applied to its own output it changes nothing.
C8_Idempotent ==
    pc = "recleaned" => recleaned = cleaned

----------------------------------------------------------------------------
(* analyze over every list of at most MaxComments raw comments *)

InitAnalyze ==
    /\ pc = "for"
    /\ analyze_comments = <<>>
    /\ data = <<>>
    /\ comments_df = NoneValue
    /\ text = <<>>
    /\ cleaned = <<>>
    /\ recleaned = <<>>
    /\ video_info = NoneValue
    /\ info_result = NoneValue
    /\ info_outcome = "none"
    /\ st_error = ""
    /\ max_comments = 0
    /\ comments = <<>>
    /\ next_page_token = None
    /\ result = <<>>
    /\ failed = FALSE
    /\ sent = <<>>
    /\ received = <<>>

NextAnalyze ==
    \/ \E c \in RawComments :
          Len(analyze_comments) < MaxComments /\ AnalyzeSkip(c)
    \/ \E c \in RawComments, scores \in LibraryScores :
          Len(analyze_comments) < MaxComments /\ AnalyzeScore(c, scores)
    \/ AnalyzeReturn

SpecAnalyze == InitAnalyze /\ [][NextAnalyze]_vars

\* the number of whitespace-delimited tokens of s: the positions where a
\* token begins
TokenCount(s) ==
    Cardinality({i \in 1..Len(s) : ~IsSpace(s[i]) /\ (i = 1 \/ IsSpace(s[i - 1]))})

\* the normalized texts of the comments iterated over, in input order
NormalizedTexts ==
    [i \in 1..Len(analyze_comments) |-> clean_text(analyze_comments[i].text)]

\* the positions, in seq, of the texts with at least 2 tokens
SurvivorsOf(seq) == {i \in 1..Len(seq) : TokenCount(seq[i]) >= 2}

\* the positions in the input of the comments whose normalized text has at
\* least 2 tokens
Survivors == SurvivorsOf(NormalizedTexts)

\* the j-th smallest member of the set of positions S
NthOf(S, j) == CHOOSE i \in S : Cardinality({k \in S : k <= i}) = j

\* the position in the input of the j-th survivor
SurvivorAt(j) == NthOf(Survivors, j)

\* C5: analyze is a stable filter: one record for each comment whose
\* normalized text has at least 2 tokens, none for the others, in input order;
\* the frame returned and stored holds exactly these records.
C5_StableFilter ==
    LET norm == NormalizedTexts
        kept == SurvivorsOf(norm)
    IN  /\ Len(data) = Cardinality(kept)
        /\ Len(data) = Len(analyze_comments)
                          - Cardinality({i \in 1..Len(norm) : TokenCount(norm[i]) < 2})
        /\ \A j \in 1..Len(data) : data[j].comment = norm[NthOf(kept, j)]
        /\ pc = "analyzed" => comments_df = DataFrame(data)

\* C5 witness: a dropped comment between two kept comments with different
\* normalized texts
C5_Witness ==
    /\ pc = "analyzed"
    /\ Len(analyze_comments) = 3
    /\ Len(comments_df.rows) = 2
    /\ Survivors = {1, 3}
    /\ comments_df.rows[1].comment # comments_df.rows[2].comment

\* C6: every record keeps the original unmodified text and the like count of
\* its raw comment.
C6_PreservesOriginal ==
    \A j \in 1..Len(data) :
        /\ "originalText" \in DOMAIN data[j]
        /\ "likeCount" \in DOMAIN data[j]
        /\ data[j].originalText = analyze_comments[SurvivorAt(j)].text
        /\ data[j].likeCount = analyze_comments[SurvivorAt(j)].likes

\* label of a score under a strict threshold pair
LabelOf(score, threshold) ==
    IF score > threshold THEN "Positive"
    ELSE IF score < -threshold THEN "Negative"
    ELSE "Neutral"

\* C7: every record carries one label per method, method 1 (polarity) with
\* thresholds 0.1 / -0.1 and method 2 (compound) with 0.05 / -0.05, strict.
C7_LabelsPerMethod ==
    \A j \in 1..Len(data) :
        /\ "method1Label" \in DOMAIN data[j]
        /\ "method2Label" \in DOMAIN data[j]
        /\ data[j].method1Label = LabelOf(data[j].polarity, 100)
        /\ data[j].method2Label = LabelOf(data[j].vader_compound, 50)

====
